---------------------------- MODULE Spec2Model ----------------------------
(***************************************************************************)
(* The zoom-pan transformation engine (class Renderer) with the element    *)
(* whose style it writes.                                                  *)
(*                                                                         *)
(* A JavaScript number is a record [k, v]: k = "fin" with v the value in   *)
(* units of 1/Unit, or one of the three non-finite values "nan", "pinf",   *)
(* "ninf" (v = 0).  `undefined` (an omitted optional argument) is          *)
(* k = "undef".                                                            *)
(*                                                                         *)
(* The host holds `returned`, the object its last getState() call gave it  *)
(* (returnedIsState: that object is the engine's own state object), and    *)
(* `result`, what its last call of a function of the math module returned. *)
(*                                                                         *)
(* `helper` is the closure of zoomPan / zoomPanWithPointer around the      *)
(* engine: its options, isPanning / isPointerDown, lastPointerPosition and *)
(* the listeners it has attached, with the last thing the host did to it   *)
(* and the drag in progress as the host sees it.                           *)
(* `timers` is the clock with the closures of debounce and throttle.       *)
(***************************************************************************)
EXTENDS Integers, Sequences, FiniteSets, TLC

VARIABLES state, config, isActiveFlag, element, call,
          returned, returnedIsState, result, helper, timers

vars == <<state, config, isActiveFlag, element, call,
          returned, returnedIsState, result, helper, timers>>

(***************************************************************************)
(* Numbers                                                                 *)
(***************************************************************************)
Unit == 100

MaxPan == 1

Fin(v) == [k |-> "fin", v |-> v]

Px(n) == Fin(n * Unit)

\* n / 2
Half(n) == Fin(n * (Unit \div 2))

NaN == [k |-> "nan", v |-> 0]

PosInf == [k |-> "pinf", v |-> 0]

NegInf == [k |-> "ninf", v |-> 0]

Undefined == [k |-> "undef", v |-> 0]

NumberIsFinite(a) == a.k = "fin"

Abs(i) == IF i < 0 THEN -i ELSE i

\* a < b with IEEE semantics: false as soon as one side is NaN
Lt(a, b) ==
  CASE a.k = "nan" \/ b.k = "nan" -> FALSE
    [] a.k = "ninf" -> b.k # "ninf"
    [] a.k = "pinf" -> FALSE
    [] b.k = "ninf" -> FALSE
    [] b.k = "pinf" -> TRUE
    [] OTHER -> a.v < b.v

Le(a, b) == a.k # "nan" /\ b.k # "nan" /\ ~Lt(b, a)

\* a + b
Add(a, b) ==
  CASE a.k = "nan" \/ b.k = "nan" -> NaN
    [] a.k = "fin" /\ b.k = "fin" -> Fin(a.v + b.v)
    [] a.k = "fin" -> b
    [] b.k = "fin" -> a
    [] a.k = b.k -> a
    [] OTHER -> NaN

\* a - b
Sub(a, b) == Add(a, IF b.k = "fin" THEN Fin(-b.v)
                    ELSE IF b.k = "pinf" THEN NegInf
                    ELSE IF b.k = "ninf" THEN PosInf ELSE b)

Sign(i) == IF i < 0 THEN -1 ELSE 1

\* a / b; a finite quotient is exact for the arguments drawn below and is
\* truncated towards zero otherwise
Div(a, b) ==
  CASE a.k = "nan" \/ b.k = "nan" -> NaN
    [] a.k = "fin" /\ b.k = "fin" ->
         IF b.v # 0
         THEN Fin(Sign(a.v) * Sign(b.v) * ((Abs(a.v) * Unit) \div Abs(b.v)))
         ELSE IF a.v = 0 THEN NaN
         ELSE IF a.v > 0 THEN PosInf ELSE NegInf
    [] a.k = "fin" -> Fin(0)
    [] b.k # "fin" -> NaN
    [] OTHER -> IF (a.k = "pinf") = (b.v >= 0) THEN PosInf ELSE NegInf

\* a * b; a finite product is exact for the arguments drawn below and is
\* truncated towards zero otherwise
Mul(a, b) ==
  CASE a.k = "nan" \/ b.k = "nan" -> NaN
    [] a.k = "fin" /\ b.k = "fin" ->
         Fin(Sign(a.v) * Sign(b.v) * ((Abs(a.v) * Abs(b.v)) \div Unit))
    [] (a.k = "fin" /\ a.v = 0) \/ (b.k = "fin" /\ b.v = 0) -> NaN
    [] OTHER ->
         IF (a.k = "pinf" \/ (a.k = "fin" /\ a.v > 0))
            = (b.k = "pinf" \/ (b.k = "fin" /\ b.v > 0))
         THEN PosInf ELSE NegInf

MathMin(a, b) ==
  IF a.k = "nan" \/ b.k = "nan" THEN NaN
  ELSE IF Lt(b, a) THEN b ELSE a

MathMax(a, b) ==
  IF a.k = "nan" \/ b.k = "nan" THEN NaN
  ELSE IF Lt(a, b) THEN b ELSE a

\* `${n}`: the decimal text of a number
NumToString(a) ==
  CASE a.k = "nan" -> "NaN"
    [] a.k = "pinf" -> "Infinity"
    [] a.k = "ninf" -> "-Infinity"
    [] a.k = "undef" -> "undefined"
    [] OTHER ->
         (IF a.v < 0 THEN "-" ELSE "")
         \o ToString(Abs(a.v) \div Unit)
         \o (LET f == Abs(a.v) % Unit
             IN  IF f = 0 THEN ""
                 ELSE IF f % 10 = 0 THEN "." \o ToString(f \div 10)
                 ELSE IF f < 10 THEN ".0" \o ToString(f)
                 ELSE "." \o ToString(f))

(***************************************************************************)
(* Pure helpers                                                            *)
(***************************************************************************)
\* the bounds taken in the other order
clamp_boundsSwapped(value, min, max) == MathMin(min, MathMax(value, max))

clamp(value, min, max) == MathMax(min, MathMin(value, max))

\* the step divided by the plain sensitivity, as Renderer.zoom does
calculateScale_plain(scale, deltaScale, minScale, maxScale, scaleSensitivity) ==
  <<scale,
    clamp(Add(scale, Div(deltaScale, scaleSensitivity)), minScale, maxScale)>>

calculateScale(scale, deltaScale, minScale, maxScale, scaleSensitivity) ==
  <<scale,
    clamp(Add(scale, Div(deltaScale, Div(scaleSensitivity, scale))),
          minScale, maxScale)>>

\* translateY before translateX
getMatrixTransform_yx(scale, translateX, translateY) ==
  "matrix(" \o NumToString(scale) \o ", 0, 0, " \o NumToString(scale)
  \o ", " \o NumToString(translateY) \o ", " \o NumToString(translateX) \o ")"

getMatrixTransform(scale, translateX, translateY) ==
  "matrix(" \o NumToString(scale) \o ", 0, 0, " \o NumToString(scale)
  \o ", " \o NumToString(translateX) \o ", " \o NumToString(translateY) \o ")"

\* getMatrixTransform of core/utils
coreGetMatrixTransform(scale, translateX, translateY) ==
  "matrix(" \o NumToString(scale) \o ", 0, 0, " \o NumToString(scale)
  \o ", " \o NumToString(translateX) \o ", " \o NumToString(translateY) \o ")"

(***************************************************************************)
(* Reading a descriptor back: the text between "matrix(" and ")" is split  *)
(* at ", " and each component is read as a decimal number.                 *)
(***************************************************************************)
Digits == "0123456789"

DigitValue(c) == CHOOSE d \in 0..9 : SubSeq(Digits, d + 1, d + 1) = c

RECURSIVE ParseDigits(_)
ParseDigits(str) ==
  IF str = "" THEN 0
  ELSE 10 * ParseDigits(SubSeq(str, 1, Len(str) - 1))
       + DigitValue(SubSeq(str, Len(str), Len(str)))

\* the first position from i on where sep starts in str, 0 if there is none
RECURSIVE Find(_, _, _)
Find(str, sep, i) ==
  IF i + Len(sep) - 1 > Len(str) THEN 0
  ELSE IF SubSeq(str, i, i + Len(sep) - 1) = sep THEN i
  ELSE Find(str, sep, i + 1)

RECURSIVE Split(_, _)
Split(str, sep) ==
  LET i == Find(str, sep, 1)
  IN  IF i = 0 THEN <<str>>
      ELSE <<SubSeq(str, 1, i - 1)>>
           \o Split(SubSeq(str, i + Len(sep), Len(str)), sep)

\* the fraction digits read to the resolution 1/Unit
ParseFraction(frac) ==
  IF Len(frac) = 0 THEN 0
  ELSE IF Len(frac) = 1 THEN ParseDigits(frac) * (Unit \div 10)
  ELSE ParseDigits(SubSeq(frac, 1, 2))

ParseNumber(str) ==
  CASE str = "NaN" -> NaN
    [] str = "Infinity" -> PosInf
    [] str = "-Infinity" -> NegInf
    [] OTHER ->
         LET neg == SubSeq(str, 1, 1) = "-"
             body == IF neg THEN SubSeq(str, 2, Len(str)) ELSE str
             dot == Find(body, ".", 1)
             int == IF dot = 0 THEN body ELSE SubSeq(body, 1, dot - 1)
             frac == IF dot = 0 THEN "" ELSE SubSeq(body, dot + 1, Len(body))
             v == ParseDigits(int) * Unit + ParseFraction(frac)
         IN  Fin(IF neg THEN -v ELSE v)

\* the components of "matrix(a, b, c, d, tx, ty)"
ParseMatrix(str) ==
  LET parts == Split(SubSeq(str, Len("matrix(") + 1, Len(str) - 1), ", ")
  IN  [i \in 1..Len(parts) |-> ParseNumber(parts[i])]

\* pos !== prevPos: NaN differs from every number, itself included
hasPositionChanged(pos, prevPos) ==
  pos.k = "nan" \/ prevPos.k = "nan" \/ pos # prevPos

\* scale >= minScale && scale <= maxScale
isScaleInRange(scale, minScale, maxScale) ==
  Le(minScale, scale) /\ Le(scale, maxScale)

\* prevPos is not multiplied by scale
calculateTranslate_plainDifference(pos, prevPos, translate, scale, minScale, maxScale) ==
  IF ~(isScaleInRange(scale, minScale, maxScale)
       /\ hasPositionChanged(pos, prevPos))
  THEN translate
  ELSE Add(translate,
           Mul(Sub(pos, prevPos), Sub(Px(1), Div(Px(1), scale))))

calculateTranslate(pos, prevPos, translate, scale, minScale, maxScale) ==
  IF ~(isScaleInRange(scale, minScale, maxScale)
       /\ hasPositionChanged(pos, prevPos))
  THEN translate
  ELSE Add(translate,
           Mul(Sub(pos, Mul(prevPos, scale)), Sub(Px(1), Div(Px(1), scale))))

\* Boolean(event.buttons & (1 << button))
isButtonPressed(event, button) == (event.buttons \div (2 ^ button)) % 2 = 1

isLeftPressed(event) == isButtonPressed(event, 0)

isRightPressed(event) == isButtonPressed(event, 2)

isMiddlePressed(event) == isButtonPressed(event, 1)

getMouseState(event) ==
  [button |-> event.button, buttons |-> event.buttons,
   leftPressed |-> isLeftPressed(event),
   rightPressed |-> isRightPressed(event),
   middlePressed |-> isMiddlePressed(event)]

isValidTransformation_noY(scale, translateX, translateY) ==
  NumberIsFinite(scale) /\ NumberIsFinite(translateX)

isValidTransformation(scale, translateX, translateY) ==
  /\ NumberIsFinite(scale)
  /\ NumberIsFinite(translateX)
  /\ NumberIsFinite(translateY)

(***************************************************************************)
(* Renderer                                                                *)
(***************************************************************************)
\* the configurations a Renderer is constructed with:
\* 0 < minScale <= maxScale, scaleSensitivity > 0; the second one does not
\* contain the initial scale 1
Configs ==
  { [minScale |-> Half(1), maxScale |-> Px(2), scaleSensitivity |-> Px(2)],
    [minScale |-> Px(2), maxScale |-> Px(3), scaleSensitivity |-> Px(1)] }

\* the arguments the host passes
DeltaScales == {Px(1), Px(-1), Px(-4), NaN, PosInf}

TargetPoints == {<<Px(0), Px(0)>>, <<Px(1), Px(2)>>}

PanXs == {Px(1), Px(-1), PosInf}

PanYs == {Px(0), Px(1), NaN}

ToScales == {Undefined, Half(1), Px(5), NaN}

ToXs == {Px(-1), PosInf}

ToYs == {Px(1), NaN}

\* the finite translations kept within the bound
InPanRange(a) == a.k = "fin" => Abs(a.v) <= MaxPan * Unit

getInitialState ==
  [originX |-> Px(0), originY |-> Px(0),
   translateX |-> Px(0), translateY |-> Px(0), scale |-> Px(1)]

\* the style of a freshly created element
NewElement == [transformOrigin |-> "", transform |-> ""]

applyTransform_noCheck(st, el) ==
  [transformOrigin |->
     NumToString(st.originX) \o "px " \o NumToString(st.originY) \o "px",
   transform |-> getMatrixTransform(st.scale, st.translateX, st.translateY)]

applyTransform_noOrigin(st, el) ==
  IF ~isValidTransformation(st.scale, st.translateX, st.translateY)
  THEN el
  ELSE [el EXCEPT !.transform =
          getMatrixTransform(st.scale, st.translateX, st.translateY)]

applyTransform(st, el) ==
  IF ~isValidTransformation(st.scale, st.translateX, st.translateY)
  THEN el
  ELSE [transformOrigin |->
          NumToString(st.originX) \o "px " \o NumToString(st.originY) \o "px",
        transform |-> getMatrixTransform(st.scale, st.translateX, st.translateY)]

\* a call of the host: its name and arguments, the state and the lifecycle
\* flag it was made in, and whether it ended by throwing
Called(op, a, b, c) ==
  [op |-> op, a |-> a, b |-> b, c |-> c,
   from |-> state, active |-> isActiveFlag, threw |-> FALSE]

\* before the host has called getState() / a math function
NoObject == [none |-> TRUE]

NoResult == [fn |-> "none"]

\* an operation that assigns fields of this.state in place: an object that
\* is this.state shows the assignments, any other object is untouched
HostKeeps ==
  /\ returned' = (IF returnedIsState THEN state' ELSE returned)
  /\ UNCHANGED <<returnedIsState, result>>

\* reset assigns a new object to this.state
HostKeepsOnReset ==
  /\ returnedIsState' = (returnedIsState /\ ~isActiveFlag)
  /\ UNCHANGED <<returned, result>>

\* no helper around the engine, no debounced or throttled function
NoHelper == [kind |-> "none"]

NoTimers == [now |-> 0]

\* a call the host makes on the engine or the math module directly
HostOnly == UNCHANGED <<helper, timers>>

Init ==
  /\ helper = NoHelper
  /\ timers = NoTimers
  /\ returned = NoObject
  /\ returnedIsState = FALSE
  /\ result = NoResult
  /\ config \in Configs
  /\ state = getInitialState
  /\ isActiveFlag = TRUE
  /\ element = NewElement
  /\ call = Called("new", Undefined, Undefined, Undefined)

zoomNewScale_scaled(scale, deltaScale, scaleSensitivity) ==
  Add(scale, Div(deltaScale, Div(scaleSensitivity, scale)))

\* scale - deltaScale / scaleSensitivity
zoomNewScale_negated(scale, deltaScale, scaleSensitivity) ==
  Add(scale, Div(deltaScale, [scaleSensitivity EXCEPT !.v = -@]))

\* a NaN scale is taken as the initial scale 1
zoomNewScale_fromOneOnNaN(scale, deltaScale, scaleSensitivity) ==
  Add(IF scale = NaN THEN Px(1) ELSE scale, Div(deltaScale, scaleSensitivity))

zoomNewScale(scale, deltaScale, scaleSensitivity) ==
  Add(scale, Div(deltaScale, scaleSensitivity))

zoom_noClamp(x, y, deltaScale) ==
  /\ call' = Called("zoom", x, y, deltaScale)
  /\ IF ~isActiveFlag
     THEN UNCHANGED <<state, element>>
     ELSE LET newScale ==
                zoomNewScale(state.scale, deltaScale, config.scaleSensitivity)
              st == [state EXCEPT !.scale = newScale]
          IN  state' = st /\ element' = applyTransform(st, element)
  /\ UNCHANGED <<config, isActiveFlag>>
  /\ HostKeeps

zoom_movesToTarget(x, y, deltaScale) ==
  /\ call' = Called("zoom", x, y, deltaScale)
  /\ IF ~isActiveFlag
     THEN UNCHANGED <<state, element>>
     ELSE LET newScale ==
                zoomNewScale(state.scale, deltaScale, config.scaleSensitivity)
              st == [state EXCEPT !.scale =
                       MathMax(config.minScale,
                               MathMin(config.maxScale, newScale)),
                                  !.translateX = x,
                                  !.translateY = y]
          IN  state' = st /\ element' = applyTransform(st, element)
  /\ UNCHANGED <<config, isActiveFlag>>
  /\ HostKeeps

zoom_throwsOnNaN(x, y, deltaScale) ==
  /\ call' = [Called("zoom", x, y, deltaScale) EXCEPT
                !.threw = (deltaScale = NaN)]
  /\ IF ~isActiveFlag \/ deltaScale = NaN
     THEN UNCHANGED <<state, element>>
     ELSE LET newScale ==
                zoomNewScale(state.scale, deltaScale, config.scaleSensitivity)
              st == [state EXCEPT !.scale =
                       MathMax(config.minScale,
                               MathMin(config.maxScale, newScale))]
          IN  state' = st /\ element' = applyTransform(st, element)
  /\ UNCHANGED <<config, isActiveFlag>>
  /\ HostKeeps

zoom_minMaxSwapped(x, y, deltaScale) ==
  /\ call' = Called("zoom", x, y, deltaScale)
  /\ IF ~isActiveFlag
     THEN UNCHANGED <<state, element>>
     ELSE LET newScale ==
                zoomNewScale(state.scale, deltaScale, config.scaleSensitivity)
              st == [state EXCEPT !.scale =
                       MathMin(config.minScale,
                               MathMax(config.maxScale, newScale))]
          IN  state' = st /\ element' = applyTransform(st, element)
  /\ UNCHANGED <<config, isActiveFlag>>
  /\ HostKeeps

zoom_noGuard(x, y, deltaScale) ==
  /\ call' = Called("zoom", x, y, deltaScale)
  /\ LET newScale ==
           zoomNewScale(state.scale, deltaScale, config.scaleSensitivity)
         st == [state EXCEPT !.scale =
                  MathMax(config.minScale, MathMin(config.maxScale, newScale))]
     IN  state' = st /\ element' = applyTransform(st, element)
  /\ UNCHANGED <<config, isActiveFlag>>
  /\ HostKeeps

zoom(x, y, deltaScale) ==
  /\ call' = Called("zoom", x, y, deltaScale)
  /\ IF ~isActiveFlag
     THEN UNCHANGED <<state, element>>
     ELSE LET newScale ==
                zoomNewScale(state.scale, deltaScale, config.scaleSensitivity)
              st == [state EXCEPT !.scale =
                       MathMax(config.minScale,
                               MathMin(config.maxScale, newScale))]
          IN  state' = st /\ element' = applyTransform(st, element)
  /\ UNCHANGED <<config, isActiveFlag>>
  /\ HostKeeps

panBy_assigns(originX, originY) ==
  /\ call' = Called("panBy", originX, originY, Undefined)
  /\ IF ~isActiveFlag
     THEN UNCHANGED <<state, element>>
     ELSE LET st == [state EXCEPT !.translateX = originX,
                                  !.translateY = originY]
          IN  /\ InPanRange(st.translateX) /\ InPanRange(st.translateY)
              /\ state' = st
              /\ element' = applyTransform(st, element)
  /\ UNCHANGED <<config, isActiveFlag>>
  /\ HostKeeps

panBy_setsOrigin(originX, originY) ==
  /\ call' = Called("panBy", originX, originY, Undefined)
  /\ IF ~isActiveFlag
     THEN UNCHANGED <<state, element>>
     ELSE LET st == [state EXCEPT !.translateX = Add(@, originX),
                                  !.translateY = Add(@, originY),
                                  !.originX = originX,
                                  !.originY = originY]
          IN  /\ InPanRange(st.translateX) /\ InPanRange(st.translateY)
              /\ state' = st
              /\ element' = applyTransform(st, element)
  /\ UNCHANGED <<config, isActiveFlag>>
  /\ HostKeeps

panBy(originX, originY) ==
  /\ call' = Called("panBy", originX, originY, Undefined)
  /\ IF ~isActiveFlag
     THEN UNCHANGED <<state, element>>
     ELSE LET st == [state EXCEPT !.translateX = Add(@, originX),
                                  !.translateY = Add(@, originY)]
          IN  /\ InPanRange(st.translateX) /\ InPanRange(st.translateY)
              /\ state' = st
              /\ element' = applyTransform(st, element)
  /\ UNCHANGED <<config, isActiveFlag>>
  /\ HostKeeps

panTo_unclamped(originX, originY, scale) ==
  /\ call' = Called("panTo", originX, originY, scale)
  /\ IF ~isActiveFlag
     THEN UNCHANGED <<state, element>>
     ELSE LET st == [state EXCEPT
                       !.scale = IF scale # Undefined THEN scale ELSE @,
                       !.translateX = originX,
                       !.translateY = originY]
          IN  state' = st /\ element' = applyTransform(st, element)
  /\ UNCHANGED <<config, isActiveFlag>>
  /\ HostKeeps

panTo_noGuard(originX, originY, scale) ==
  /\ call' = Called("panTo", originX, originY, scale)
  /\ LET st == [state EXCEPT
                  !.scale = IF scale # Undefined
                            THEN MathMax(config.minScale,
                                         MathMin(config.maxScale, scale))
                            ELSE @,
                  !.translateX = originX,
                  !.translateY = originY]
     IN  state' = st /\ element' = applyTransform(st, element)
  /\ UNCHANGED <<config, isActiveFlag>>
  /\ HostKeeps

panTo(originX, originY, scale) ==
  /\ call' = Called("panTo", originX, originY, scale)
  /\ IF ~isActiveFlag
     THEN UNCHANGED <<state, element>>
     ELSE LET st == [state EXCEPT
                       !.scale = IF scale # Undefined
                                 THEN MathMax(config.minScale,
                                              MathMin(config.maxScale, scale))
                                 ELSE @,
                       !.translateX = originX,
                       !.translateY = originY]
          IN  state' = st /\ element' = applyTransform(st, element)
  /\ UNCHANGED <<config, isActiveFlag>>
  /\ HostKeeps

reset_keepsTranslation ==
  /\ call' = Called("reset", Undefined, Undefined, Undefined)
  /\ state' = IF ~isActiveFlag THEN state
              ELSE [state EXCEPT !.scale = getInitialState.scale]
  /\ UNCHANGED <<config, isActiveFlag, element>>
  /\ HostKeepsOnReset

\* reset emits the restored state
reset_writes ==
  /\ call' = Called("reset", Undefined, Undefined, Undefined)
  /\ state' = (IF ~isActiveFlag THEN state ELSE getInitialState)
  /\ element' = (IF ~isActiveFlag THEN element
                 ELSE applyTransform(getInitialState, element))
  /\ UNCHANGED <<config, isActiveFlag>>
  /\ HostKeepsOnReset

reset ==
  /\ call' = Called("reset", Undefined, Undefined, Undefined)
  /\ state' = IF ~isActiveFlag THEN state ELSE getInitialState
  /\ UNCHANGED <<config, isActiveFlag, element>>
  /\ HostKeepsOnReset

getState == state

\* `return this.state`: the engine's own object
getStateCall_sameObject ==
  /\ call' = Called("getState", Undefined, Undefined, Undefined)
  /\ returned' = getState
  /\ returnedIsState' = TRUE
  /\ UNCHANGED <<config, state, isActiveFlag, element, result>>

\* the host calling getState(): `{ ...this.state }` is a new object with
\* the five numbers copied
getStateCall ==
  /\ call' = Called("getState", Undefined, Undefined, Undefined)
  /\ returned' = getState
  /\ returnedIsState' = FALSE
  /\ UNCHANGED <<config, state, isActiveFlag, element, result>>

\* the host assigning a field of the object it was given
assignReturned(field, value) ==
  /\ returned # NoObject
  /\ call' = Called("assign", value, Undefined, Undefined)
  /\ returned' = [returned EXCEPT ![field] = value]
  /\ state' = (IF returnedIsState THEN returned' ELSE state)
  /\ UNCHANGED <<config, isActiveFlag, element, returnedIsState, result>>

isActive == isActiveFlag

destroy_toggle ==
  /\ call' = Called("destroy", Undefined, Undefined, Undefined)
  /\ isActiveFlag' = ~isActiveFlag
  /\ UNCHANGED <<config, state, element>>
  /\ HostKeeps

destroy ==
  /\ call' = Called("destroy", Undefined, Undefined, Undefined)
  /\ isActiveFlag' = FALSE
  /\ UNCHANGED <<config, state, element>>
  /\ HostKeeps

\* the host (the facade) calling the public applyTransform directly
applyTransformCall ==
  /\ call' = Called("applyTransform", Undefined, Undefined, Undefined)
  /\ element' = applyTransform(state, element)
  /\ UNCHANGED <<config, state, isActiveFlag>>
  /\ HostKeeps

Next ==
  \/ \E p \in TargetPoints, d \in DeltaScales :
       zoom(p[1], p[2], d) /\ HostOnly
  \/ \E x \in PanXs, y \in PanYs : panBy(x, y) /\ HostOnly
  \/ \E x \in ToXs, y \in ToYs, s \in ToScales : panTo(x, y, s) /\ HostOnly
  \/ reset /\ HostOnly
  \/ destroy /\ HostOnly
  \/ applyTransformCall /\ HostOnly

Spec == Init /\ [][Next]_vars

\* the host holding the object of a getState() call while it goes on
\* calling the engine, and assigning fields of that object
CopyDeltas == {Px(1), Px(-1)}

NextCopy ==
  \/ \E d \in CopyDeltas : zoom(Px(0), Px(0), d) /\ HostOnly
  \/ panBy(Px(1), Px(0)) /\ HostOnly
  \/ reset /\ HostOnly
  \/ destroy /\ HostOnly
  \/ getStateCall /\ HostOnly
  \/ assignReturned("scale", Px(7)) /\ HostOnly

SpecCopy == Init /\ [][NextCopy]_vars

\* the host calling the math module
CalcScales ==
  {Half(0), Half(1), Half(2), Half(3), Half(4), Half(6), Half(8), NaN, PosInf}

CalcDeltas == DeltaScales \cup {Px(2), NegInf}

calculateScaleCall(scale, deltaScale) ==
  /\ call' = Called("calculateScale", scale, deltaScale, Undefined)
  /\ result' = [fn |-> "calculateScale",
                value |-> calculateScale(scale, deltaScale, config.minScale,
                                         config.maxScale,
                                         config.scaleSensitivity)]
  /\ UNCHANGED <<config, state, isActiveFlag, element,
                 returned, returnedIsState>>

ClampValues ==
  {Px(-1), Px(0), Half(1), Px(1), Half(3), Px(2), Px(3), NaN, PosInf, NegInf}

\* [min, max] pairs, min <= max and one with min > max
ClampBounds ==
  {<<Px(0), Px(0)>>, <<Px(0), Px(2)>>, <<Half(1), Px(1)>>, <<Px(1), Px(2)>>,
   <<NegInf, Px(1)>>, <<Px(2), Px(1)>>}

clampCall(value, min, max) ==
  /\ call' = Called("clamp", value, min, max)
  /\ result' = [fn |-> "clamp", value |-> clamp(value, min, max)]
  /\ UNCHANGED <<config, state, isActiveFlag, element,
                 returned, returnedIsState>>

MatrixScales == {Fin(10), Half(1), Fin(98), Px(1), Fin(102), Px(30)}

MatrixTranslates == {Px(-12), Half(-1), Fin(-5), Px(0), Fin(125), Px(200)}

getMatrixTransformCall(scale, translateX, translateY) ==
  /\ call' = Called("getMatrixTransform", scale, translateX, translateY)
  /\ result' = [fn |-> "getMatrixTransform",
                value |-> getMatrixTransform(scale, translateX, translateY),
                core |-> coreGetMatrixTransform(scale, translateX,
                                                translateY)]
  /\ UNCHANGED <<config, state, isActiveFlag, element,
                 returned, returnedIsState>>

TranslatePositions == {Px(0), Px(1), Px(2), PosInf, NaN}

TranslateValues == {Px(0), Px(5)}

TranslateScales == {Half(1), Px(1), Px(2), Half(5), Px(4), NaN}

calculateTranslateCall(pos, prevPos, translate, scale) ==
  /\ call' = Called("calculateTranslate", pos, prevPos, translate)
  /\ result' = [fn |-> "calculateTranslate",
                pos |-> pos, prevPos |-> prevPos, translate |-> translate,
                scale |-> scale,
                value |-> calculateTranslate(pos, prevPos, translate, scale,
                                             config.minScale,
                                             config.maxScale)]
  /\ UNCHANGED <<config, state, isActiveFlag, element,
                 returned, returnedIsState>>

\* event.buttons: every combination of left (1), right (2), middle (4)
\* and back (8)
ButtonMasks == 0..15

getMouseStateCall(buttons) ==
  /\ call' = Called("getMouseState", Px(buttons), Undefined, Undefined)
  /\ result' = [fn |-> "getMouseState",
                value |-> getMouseState([button |-> 0, buttons |-> buttons])]
  /\ UNCHANGED <<config, state, isActiveFlag, element,
                 returned, returnedIsState>>

NextCalc ==
  \/ \E s \in CalcScales, d \in CalcDeltas :
       calculateScaleCall(s, d) /\ HostOnly
  \/ \E v \in ClampValues, b \in ClampBounds :
       clampCall(v, b[1], b[2]) /\ HostOnly
  \/ \E s \in MatrixScales, x, y \in MatrixTranslates :
       getMatrixTransformCall(s, x, y) /\ HostOnly
  \/ \E q, r \in TranslatePositions, t \in TranslateValues,
        s \in TranslateScales :
       calculateTranslateCall(q, r, t, s) /\ HostOnly
  \/ \E b \in ButtonMasks : getMouseStateCall(b) /\ HostOnly

SpecCalc == Init /\ [][NextCalc]_vars

\* the host passing NaN and infinite scales
NaNDeltas == {Px(1), Px(-1), NaN}

NaNToScales == {Undefined, NaN, PosInf, NegInf, Px(1)}

NextNaN ==
  \/ \E d \in NaNDeltas : zoom(Px(0), Px(0), d) /\ HostOnly
  \/ \E x \in {Px(1), Px(-1)} : panBy(x, Px(0)) /\ HostOnly
  \/ \E s \in NaNToScales : panTo(Px(0), Px(0), s) /\ HostOnly
  \/ reset /\ HostOnly
  \/ destroy /\ HostOnly

SpecNaN == Init /\ [][NextNaN]_vars

\* the host's loop `for (...) renderer.zoom({element, x, y, deltaScale})`:
\* the zoom call just made is made again with the same arguments
RepeatZoom == call.op = "zoom" /\ zoom(call.a, call.b, call.c) /\ HostOnly

\* any operations up to a first zoom, which is then repeated for ever
NextRepeat ==
  \/ call.op # "zoom" /\ Next
  \/ RepeatZoom

SpecRepeat == Init /\ [][NextRepeat]_vars /\ WF_vars(RepeatZoom)

(***************************************************************************)
(* useZoomPan, zoomPan and zoomPanWithPointer                              *)
(***************************************************************************)
MaxWheel == 2

MathSign(a) ==
  CASE a.k = "nan" -> NaN
    [] Lt(Px(0), a) -> Px(1)
    [] Lt(a, Px(0)) -> Px(-1)
    [] OTHER -> a

isLeftButton(event) == event.button = 0

isCtrlKey(event) == event.ctrlKey

isShiftKey(event) == event.shiftKey

\* a configuration object is its set of keys with their values; the
\* value of a key it does not have is never read
Opt(o, key, default) == IF key \in o.keys THEN o[key] ELSE default

OptionsOf(keys, minScale, maxScale, scaleSensitivity, z, p, w) ==
  [keys |-> keys, minScale |-> minScale, maxScale |-> maxScale,
   scaleSensitivity |-> scaleSensitivity,
   enableZoom |-> z, enablePan |-> p, enableMouseWheel |-> w]

ScaleKeys == {"minScale", "maxScale", "scaleSensitivity"}

\* the configurations a helper is set up with: nothing but the element,
\* one flag switched, and a narrow range with coarse steps
HelperOptions ==
  { OptionsOf({}, Undefined, Undefined, Undefined, TRUE, TRUE, FALSE),
    OptionsOf({"enableZoom"}, Undefined, Undefined, Undefined,
              FALSE, TRUE, FALSE),
    OptionsOf({"enablePan"}, Undefined, Undefined, Undefined,
              TRUE, FALSE, FALSE),
    OptionsOf(ScaleKeys \cup {"enableMouseWheel"}, Half(1), Px(2), Px(2),
              TRUE, TRUE, TRUE) }

\* a Renderer constructed by the host without scaleSensitivity
RendererOptions ==
  { OptionsOf({"minScale", "maxScale"}, Half(1), Px(2), Undefined,
              TRUE, TRUE, FALSE) }

\* constructor: this.config = { scaleSensitivity: 10, ...config }
RendererConfig(given) ==
  [minScale |-> Opt(given, "minScale", Undefined),
   maxScale |-> Opt(given, "maxScale", Undefined),
   scaleSensitivity |-> Opt(given, "scaleSensitivity", Px(10))]

\* the sensitivity default of the Renderer used by the facade too
useZoomPanConfig_sensitivity10(given) ==
  OptionsOf(ScaleKeys,
            Opt(given, "minScale", Fin(10)),
            Opt(given, "maxScale", Px(30)),
            Opt(given, "scaleSensitivity", Px(10)),
            given.enableZoom, given.enablePan, given.enableMouseWheel)

\* useZoomPan: minScale = 0.1, maxScale = 30, scaleSensitivity = 50
useZoomPanConfig(given) ==
  OptionsOf(ScaleKeys,
            Opt(given, "minScale", Fin(10)),
            Opt(given, "maxScale", Px(30)),
            Opt(given, "scaleSensitivity", Px(50)),
            given.enableZoom, given.enablePan, given.enableMouseWheel)

\* zoomPan: enableZoom = true, enablePan = true, enableMouseWheel = false,
\* minScale = 0.1, maxScale = 30, scaleSensitivity = 50
zoomPanConfig(given) ==
  OptionsOf(ScaleKeys \cup {"enableZoom", "enablePan", "enableMouseWheel"},
            Opt(given, "minScale", Fin(10)),
            Opt(given, "maxScale", Px(30)),
            Opt(given, "scaleSensitivity", Px(50)),
            Opt(given, "enableZoom", TRUE),
            Opt(given, "enablePan", TRUE),
            Opt(given, "enableMouseWheel", FALSE))

\* events: the fields the handlers read
NoEvent ==
  [type |-> "none", ctrlKey |-> FALSE, shiftKey |-> FALSE, button |-> 0,
   deltaY |-> Px(0), movementX |-> Px(0), movementY |-> Px(0),
   pageX |-> Px(0), pageY |-> Px(0)]

WheelEvents ==
  { [NoEvent EXCEPT !.type = "wheel", !.ctrlKey = c, !.deltaY = d,
                    !.pageX = Px(1), !.pageY = Px(2)] :
      c \in BOOLEAN, d \in {Px(100), Px(-100)} }

MouseEvents ==
  { [NoEvent EXCEPT !.type = "mousedown", !.button = b] : b \in {0, 2} }
  \cup
  { [NoEvent EXCEPT !.type = "mousemove", !.shiftKey = k,
                    !.movementX = m[1], !.movementY = m[2]] :
      k \in BOOLEAN, m \in {<<Px(1), Px(1)>>, <<Px(-1), Px(0)>>} }
  \cup
  { [NoEvent EXCEPT !.type = "mouseup"] }

PointerPositions == {<<Px(0), Px(0)>>, <<Px(1), Px(0)>>, <<Px(1), Px(1)>>}

PointerEvents ==
  { [NoEvent EXCEPT !.type = "pointerdown", !.button = b,
                    !.pageX = q[1], !.pageY = q[2]] :
      b \in {0, 2}, q \in {<<Px(0), Px(0)>>, <<Px(1), Px(1)>>} }
  \cup
  { [NoEvent EXCEPT !.type = "pointermove", !.shiftKey = k,
                    !.pageX = q[1], !.pageY = q[2]] :
      k \in BOOLEAN, q \in PointerPositions }
  \cup
  { [NoEvent EXCEPT !.type = "pointerup"] }

\* wheel events the host passes to api.zoom: no movement, a small and a
\* fractional one, NaN
ApiWheelEvents ==
  { [NoEvent EXCEPT !.type = "wheel", !.deltaY = d] :
      d \in {Px(0), Px(3), Half(-1), NaN} }

\* where an event is dispatched; events bubble from the element to the
\* document
Targets == {"element", "document"}

Did(op, target, event) == [op |-> op, target |-> target, event |-> event]

\* the drag as the host sees it: where the left button went down on the
\* element, where the last move with Shift was made on the element while
\* it was down, and the translation the moves since then have added
NoDrag ==
  [downAt |-> <<Px(0), Px(0)>>, lastShiftAt |-> <<Px(0), Px(0)>>,
   moved |-> <<Px(0), Px(0)>>]

\* the closure right after zoomPan(config) has attached its listeners
zoomPanSetup(given) ==
  LET c == zoomPanConfig(given)
  IN  [kind |-> "zoomPan", options |-> given,
       enableZoom |-> c.enableZoom, enablePan |-> c.enablePan,
       enableMouseWheel |-> c.enableMouseWheel,
       isPanning |-> FALSE, isPointerDown |-> FALSE,
       lastPointerPosition |-> <<Px(0), Px(0)>>,
       listeners |-> {<<"element", "wheel">>, <<"element", "mousedown">>},
       destroyed |-> FALSE, pressed |-> FALSE, drag |-> NoDrag,
       last |-> Did("setup", "", NoEvent)]

\* the closure right after zoomPanWithPointer(config)
zoomPanWithPointerSetup(given) ==
  [kind |-> "zoomPanWithPointer", options |-> given,
   enableZoom |-> given.enableZoom, enablePan |-> given.enablePan,
   enableMouseWheel |-> given.enableMouseWheel,
   isPanning |-> FALSE, isPointerDown |-> FALSE,
   lastPointerPosition |-> <<Px(0), Px(0)>>,
   listeners |-> {<<"element", "pointerdown">>, <<"element", "wheel">>},
   destroyed |-> FALSE, pressed |-> FALSE, drag |-> NoDrag,
   last |-> Did("setup", "", NoEvent)]

InitHelper ==
  /\ timers = NoTimers
  /\ returned = NoObject
  /\ returnedIsState = FALSE
  /\ result = NoResult
  /\ \/ \E o \in HelperOptions :
          /\ helper = zoomPanSetup(o)
          /\ config = RendererConfig(useZoomPanConfig(zoomPanConfig(o)))
     \/ \E o \in HelperOptions :
          /\ helper = zoomPanWithPointerSetup(o)
          /\ config = RendererConfig(useZoomPanConfig(o))
     \/ \E o \in RendererOptions :
          /\ helper = NoHelper
          /\ config = RendererConfig(o)
  /\ state = getInitialState
  /\ isActiveFlag = TRUE
  /\ element = NewElement
  /\ call = Called("new", Undefined, Undefined, Undefined)

\* the scales kept: at most MaxWheel zoom steps away from 1
InZoomSteps(st) ==
  st.scale.k = "fin" =>
    Abs(st.scale.v - Unit) * config.scaleSensitivity.v <= MaxWheel * Unit * Unit

\* the listener of `type` attached to `at` hears an event dispatched on
\* `target`
Heard(target, type, at) ==
  /\ <<at, type>> \in helper.listeners
  /\ at = "document" \/ target = "element"

\* the helper after the host has dispatched `event` on `target`; pressed:
\* a left-button down on the element with no up since
Dispatched(target, event) ==
  [helper EXCEPT
     !.last = Did("dispatchEvent", target, event),
     !.pressed =
        IF event.type \in {"mousedown", "pointerdown"}
        THEN @ \/ (isLeftButton(event) /\ target = "element")
        ELSE IF event.type \in {"mouseup", "pointerup"} THEN FALSE ELSE @]

\* a handler returning without a call of the engine
NoEngineCall ==
  /\ call' = Called("dispatchEvent", Undefined, Undefined, Undefined)
  /\ UNCHANGED <<state, config, isActiveFlag, element,
                 returned, returnedIsState, result>>

\* deltaScale = -Math.sign(event.deltaY)
useZoomPan_zoom_negatedSign(event) ==
  /\ zoom(event.pageX, event.pageY, Sub(Px(0), MathSign(event.deltaY)))
  /\ InZoomSteps(state')

\* useZoomPan.zoom with a WheelEvent
useZoomPan_zoom(event) ==
  /\ zoom(event.pageX, event.pageY,
          IF Lt(Px(0), MathSign(event.deltaY)) THEN Px(-1) ELSE Px(1))
  /\ InZoomSteps(state')

\* useZoomPan.panBy
useZoomPan_panBy(movementX, movementY) == panBy(movementX, movementY)

\* useZoomPan.panTo: the engine's fields are assigned directly
useZoomPan_panTo(x, y, scale) ==
  /\ call' = Called("panTo", x, y, scale)
  /\ LET st == [state EXCEPT
                  !.scale = IF scale # Undefined
                            THEN MathMax(config.minScale,
                                         MathMin(config.maxScale, scale))
                            ELSE @,
                  !.translateX = x,
                  !.translateY = y]
     IN  state' = st /\ element' = applyTransform(st, element)
  /\ UNCHANGED <<config, isActiveFlag>>
  /\ HostKeeps

zoomPan_handleWheel_noEnableZoom(target, event) ==
  /\ helper.kind = "zoomPan" /\ event.type = "wheel"
  /\ Heard(target, "wheel", "element")
  /\ helper' = Dispatched(target, event)
  /\ IF ~isCtrlKey(event) /\ ~helper.enableMouseWheel
     THEN NoEngineCall
     ELSE useZoomPan_zoom(event)
  /\ UNCHANGED timers

zoomPan_handleWheel(target, event) ==
  /\ helper.kind = "zoomPan" /\ event.type = "wheel"
  /\ Heard(target, "wheel", "element")
  /\ helper' = Dispatched(target, event)
  /\ IF ~helper.enableZoom \/ (~isCtrlKey(event) /\ ~helper.enableMouseWheel)
     THEN NoEngineCall
     ELSE useZoomPan_zoom(event)
  /\ UNCHANGED timers

zoomPan_handleMouseDown(target, event) ==
  /\ helper.kind = "zoomPan" /\ event.type = "mousedown"
  /\ Heard(target, "mousedown", "element")
  /\ helper' =
       IF ~helper.enablePan \/ ~isLeftButton(event)
       THEN Dispatched(target, event)
       ELSE [Dispatched(target, event) EXCEPT
               !.isPanning = TRUE,
               !.listeners = @ \cup {<<"element", "mousemove">>,
                                     <<"document", "mouseup">>}]
  /\ NoEngineCall
  /\ UNCHANGED timers

zoomPan_handleMouseMove_noShift(target, event) ==
  /\ helper.kind = "zoomPan" /\ event.type = "mousemove"
  /\ Heard(target, "mousemove", "element")
  /\ helper' = Dispatched(target, event)
  /\ IF ~helper.isPanning \/ ~helper.enablePan
     THEN NoEngineCall
     ELSE useZoomPan_panBy(event.movementX, event.movementY)
  /\ UNCHANGED timers

zoomPan_handleMouseMove(target, event) ==
  /\ helper.kind = "zoomPan" /\ event.type = "mousemove"
  /\ Heard(target, "mousemove", "element")
  /\ helper' = Dispatched(target, event)
  /\ IF ~helper.isPanning \/ ~helper.enablePan \/ ~isShiftKey(event)
     THEN NoEngineCall
     ELSE useZoomPan_panBy(event.movementX, event.movementY)
  /\ UNCHANGED timers

\* the mousemove listener stays attached
zoomPan_handleMouseUp_keepsMouseMove(target, event) ==
  /\ helper.kind = "zoomPan" /\ event.type = "mouseup"
  /\ Heard(target, "mouseup", "document")
  /\ helper' = [Dispatched(target, event) EXCEPT
                  !.isPanning = FALSE,
                  !.listeners = @ \ {<<"document", "mouseup">>}]
  /\ NoEngineCall
  /\ UNCHANGED timers

zoomPan_handleMouseUp(target, event) ==
  /\ helper.kind = "zoomPan" /\ event.type = "mouseup"
  /\ Heard(target, "mouseup", "document")
  /\ helper' = [Dispatched(target, event) EXCEPT
                  !.isPanning = FALSE,
                  !.listeners = @ \ {<<"element", "mousemove">>,
                                     <<"document", "mouseup">>}]
  /\ NoEngineCall
  /\ UNCHANGED timers

\* the mousemove listener is left attached
zoomPan_destroy_keepsMouseMove ==
  /\ helper.kind = "zoomPan"
  /\ helper' = [helper EXCEPT
                  !.listeners = @ \ {<<"element", "wheel">>,
                                     <<"element", "mousedown">>,
                                     <<"document", "mouseup">>},
                  !.destroyed = TRUE,
                  !.last = Did("destroy", "", NoEvent)]
  /\ call' = Called("helper.destroy", Undefined, Undefined, Undefined)
  /\ UNCHANGED <<state, config, isActiveFlag, element,
                 returned, returnedIsState, result, timers>>

zoomPan_destroy ==
  /\ helper.kind = "zoomPan"
  /\ helper' = [helper EXCEPT
                  !.listeners = @ \ {<<"element", "wheel">>,
                                     <<"element", "mousedown">>,
                                     <<"element", "mousemove">>,
                                     <<"document", "mouseup">>},
                  !.destroyed = TRUE,
                  !.last = Did("destroy", "", NoEvent)]
  /\ call' = Called("helper.destroy", Undefined, Undefined, Undefined)
  /\ UNCHANGED <<state, config, isActiveFlag, element,
                 returned, returnedIsState, result, timers>>

Drag(target, event) ==
  IF event.type = "pointerdown" /\ isLeftButton(event) /\ target = "element"
  THEN [downAt |-> <<event.pageX, event.pageY>>,
        lastShiftAt |-> <<event.pageX, event.pageY>>,
        moved |-> <<Px(0), Px(0)>>]
  ELSE IF event.type = "pointermove"
  THEN [helper.drag EXCEPT
          !.lastShiftAt =
             IF event.shiftKey /\ helper.pressed /\ target = "element"
             THEN <<event.pageX, event.pageY>> ELSE @,
          !.moved = <<Add(@[1], Sub(state'.translateX, state.translateX)),
                      Add(@[2], Sub(state'.translateY, state.translateY))>>]
  ELSE IF event.type = "pointerup" THEN NoDrag
  ELSE helper.drag

zoomPanWithPointer_handlePointerDown(target, event) ==
  /\ helper.kind = "zoomPanWithPointer" /\ event.type = "pointerdown"
  /\ Heard(target, "pointerdown", "element")
  /\ helper' =
       IF ~isLeftButton(event)
       THEN Dispatched(target, event)
       ELSE [Dispatched(target, event) EXCEPT
               !.drag = Drag(target, event),
               !.isPointerDown = TRUE,
               !.lastPointerPosition = <<event.pageX, event.pageY>>,
               !.listeners = @ \cup {<<"element", "pointermove">>,
                                     <<"document", "pointerup">>}]
  /\ NoEngineCall
  /\ UNCHANGED timers

\* the reference position follows every move
zoomPanWithPointer_handlePointerMove_alwaysTracks(target, event) ==
  /\ helper.kind = "zoomPanWithPointer" /\ event.type = "pointermove"
  /\ Heard(target, "pointermove", "element")
  /\ IF ~helper.isPointerDown \/ ~isShiftKey(event)
     THEN /\ NoEngineCall
          /\ helper' = [Dispatched(target, event) EXCEPT
                          !.drag = Drag(target, event),
                          !.lastPointerPosition =
                             <<event.pageX, event.pageY>>]
     ELSE /\ useZoomPan_panBy(
               Sub(event.pageX, helper.lastPointerPosition[1]),
               Sub(event.pageY, helper.lastPointerPosition[2]))
          /\ helper' = [Dispatched(target, event) EXCEPT
                          !.drag = Drag(target, event),
                          !.lastPointerPosition =
                             <<event.pageX, event.pageY>>]
  /\ UNCHANGED timers

zoomPanWithPointer_handlePointerMove(target, event) ==
  /\ helper.kind = "zoomPanWithPointer" /\ event.type = "pointermove"
  /\ Heard(target, "pointermove", "element")
  /\ IF ~helper.isPointerDown \/ ~isShiftKey(event)
     THEN /\ NoEngineCall
          /\ helper' = [Dispatched(target, event) EXCEPT
                          !.drag = Drag(target, event)]
     ELSE /\ useZoomPan_panBy(
               Sub(event.pageX, helper.lastPointerPosition[1]),
               Sub(event.pageY, helper.lastPointerPosition[2]))
          /\ helper' = [Dispatched(target, event) EXCEPT
                          !.drag = Drag(target, event),
                          !.lastPointerPosition =
                             <<event.pageX, event.pageY>>]
  /\ UNCHANGED timers

zoomPanWithPointer_handlePointerUp(target, event) ==
  /\ helper.kind = "zoomPanWithPointer" /\ event.type = "pointerup"
  /\ Heard(target, "pointerup", "document")
  /\ helper' = [Dispatched(target, event) EXCEPT
                  !.drag = Drag(target, event),
                  !.isPointerDown = FALSE,
                  !.listeners = @ \ {<<"element", "pointermove">>,
                                     <<"document", "pointerup">>}]
  /\ NoEngineCall
  /\ UNCHANGED timers

zoomPanWithPointer_handleWheel(target, event) ==
  /\ helper.kind = "zoomPanWithPointer" /\ event.type = "wheel"
  /\ Heard(target, "wheel", "element")
  /\ helper' = Dispatched(target, event)
  /\ IF ~isCtrlKey(event) THEN NoEngineCall ELSE useZoomPan_zoom(event)
  /\ UNCHANGED timers

\* the engine is destroyed with the helper
zoomPanWithPointer_destroy_destroysEngine ==
  /\ helper.kind = "zoomPanWithPointer"
  /\ helper' = [helper EXCEPT
                  !.listeners = @ \ {<<"element", "wheel">>,
                                     <<"element", "pointerdown">>,
                                     <<"element", "pointermove">>,
                                     <<"document", "pointerup">>},
                  !.destroyed = TRUE,
                  !.last = Did("destroy", "", NoEvent)]
  /\ call' = Called("helper.destroy", Undefined, Undefined, Undefined)
  /\ isActiveFlag' = FALSE
  /\ UNCHANGED <<state, config, element,
                 returned, returnedIsState, result, timers>>

zoomPanWithPointer_destroy ==
  /\ helper.kind = "zoomPanWithPointer"
  /\ helper' = [helper EXCEPT
                  !.listeners = @ \ {<<"element", "wheel">>,
                                     <<"element", "pointerdown">>,
                                     <<"element", "pointermove">>,
                                     <<"document", "pointerup">>},
                  !.destroyed = TRUE,
                  !.last = Did("destroy", "", NoEvent)]
  /\ call' = Called("helper.destroy", Undefined, Undefined, Undefined)
  /\ UNCHANGED <<state, config, isActiveFlag, element,
                 returned, returnedIsState, result, timers>>

\* an event no attached listener hears
dispatchUnheard(target, event) ==
  /\ helper.kind # "none"
  /\ \A at \in Targets : ~Heard(target, event.type, at)
  /\ helper' = Dispatched(target, event)
  /\ NoEngineCall
  /\ UNCHANGED timers

\* the host passing a WheelEvent to api.zoom
apiZoomEvent(event) ==
  /\ helper.kind # "none"
  /\ helper' = [helper EXCEPT !.last = Did("api.zoom", "", event)]
  /\ useZoomPan_zoom(event)
  /\ UNCHANGED timers

\* the host calling api.panBy({ movementX, movementY })
apiPanBy(movementX, movementY) ==
  /\ helper.kind # "none"
  /\ helper' = [helper EXCEPT !.last = Did("api.panBy", "", NoEvent)]
  /\ useZoomPan_panBy(movementX, movementY)
  /\ UNCHANGED timers

\* the host calling api.panTo({ x, y, scale })
apiPanTo(x, y, scale) ==
  /\ helper.kind # "none"
  /\ helper' = [helper EXCEPT !.last = Did("api.panTo", "", NoEvent)]
  /\ useZoomPan_panTo(x, y, scale)
  /\ UNCHANGED timers

\* the host zooming the Renderer it constructed itself
rendererZoom(deltaScale) ==
  /\ helper.kind = "none"
  /\ zoom(Px(0), Px(0), deltaScale)
  /\ InZoomSteps(state')
  /\ HostOnly

NextHelper ==
  \/ \E t \in Targets, e \in WheelEvents : zoomPan_handleWheel(t, e)
  \/ \E t \in Targets, e \in MouseEvents : zoomPan_handleMouseDown(t, e)
  \/ \E t \in Targets, e \in MouseEvents : zoomPan_handleMouseMove(t, e)
  \/ \E t \in Targets, e \in MouseEvents : zoomPan_handleMouseUp(t, e)
  \/ zoomPan_destroy
  \/ \E t \in Targets, e \in PointerEvents :
       zoomPanWithPointer_handlePointerDown(t, e)
  \/ \E t \in Targets, e \in PointerEvents :
       zoomPanWithPointer_handlePointerMove(t, e)
  \/ \E t \in Targets, e \in PointerEvents :
       zoomPanWithPointer_handlePointerUp(t, e)
  \/ \E t \in Targets, e \in WheelEvents :
       zoomPanWithPointer_handleWheel(t, e)
  \/ zoomPanWithPointer_destroy
  \/ \E t \in Targets,
        e \in WheelEvents \cup
              (IF helper.kind = "zoomPan" THEN MouseEvents
               ELSE PointerEvents) :
       dispatchUnheard(t, e)
  \/ \E e \in WheelEvents : apiZoomEvent(e)
  \/ \E d \in CopyDeltas : rendererZoom(d)

SpecHelper == InitHelper /\ [][NextHelper]_vars

\* the host using the api of a helper, before and after the helper's
\* destroy()
ApiMovements == {<<Px(1), Px(0)>>, <<Px(0), Px(-1)>>}

ApiTargets == {<<Px(1), Px(1), Undefined>>, <<Px(0), Px(0), Px(1)>>}

NextApi ==
  \/ \E e \in WheelEvents \cup ApiWheelEvents : apiZoomEvent(e)
  \/ \E m \in ApiMovements : apiPanBy(m[1], m[2])
  \/ \E q \in ApiTargets : apiPanTo(q[1], q[2], q[3])
  \/ zoomPan_destroy
  \/ zoomPanWithPointer_destroy

SpecApi == InitHelper /\ [][NextApi]_vars

\* the facade's panTo next to the engine's operations
NextFacade ==
  \/ \E x \in ToXs, y \in ToYs, s \in ToScales :
       useZoomPan_panTo(x, y, s) /\ HostOnly
  \/ \E d \in CopyDeltas : zoom(Px(0), Px(0), d) /\ HostOnly
  \/ panBy(Px(1), Px(0)) /\ HostOnly
  \/ destroy /\ HostOnly

SpecFacade == Init /\ [][NextFacade]_vars

(***************************************************************************)
(* debounce and throttle.  Time is in whole milliseconds; a timer runs at  *)
(* the time it is due (the clock does not pass a due timer).               *)
(***************************************************************************)
MaxTime == 6

MaxCalls == 3

Delays == {1, 2}

Intervals == {2, 3}

\* Date.now() when the throttled function is created
StartTimes == {1, 4}

Arguments == {"a", "b"}

\* timeoutId = null
Null == 0

Ran(op, arg, ran) == [op |-> op, arg |-> arg, ran |-> ran]

\* debounce(fn, delay) and throttle(fn, interval) just created at time
\* `start`: timeoutId = null, lastCallTime = 0; none of them called yet
NewTimers(start, delay, interval) ==
  [now |-> start, delay |-> delay, interval |-> interval,
   timeoutId |-> Null, queue |-> {}, nextId |-> 1,
   lastCallTime |-> 0,
   last |-> Ran("new", "", FALSE),
   calledAt |-> -1, calledArg |-> "", burst |-> 0, debounceRuns |-> 0,
   throttleCalled |-> FALSE, ranAt |-> -1]

InitTimers ==
  /\ timers \in {NewTimers(t, d, i) :
                   t \in StartTimes, d \in Delays, i \in Intervals}
  /\ helper = NoHelper
  /\ returned = NoObject
  /\ returnedIsState = FALSE
  /\ result = NoResult
  /\ config \in Configs
  /\ state = getInitialState
  /\ isActiveFlag = TRUE
  /\ element = NewElement
  /\ call = Called("new", Undefined, Undefined, Undefined)

TimersOnly ==
  UNCHANGED <<state, config, isActiveFlag, element, call,
              returned, returnedIsState, result, helper>>

\* the pending timer is not cleared
debounced_noClear(arg) ==
  /\ timers.nextId <= MaxCalls
  /\ timers' =
       [timers EXCEPT
          !.queue = @ \cup {[id |-> timers.nextId,
                             due |-> timers.now + timers.delay,
                             args |-> arg]},
          !.timeoutId = timers.nextId,
          !.nextId = @ + 1,
          !.last = Ran("debounced", arg, FALSE),
          !.calledAt = timers.now, !.calledArg = arg,
          !.burst = IF timers.timeoutId = Null THEN 1 ELSE @ + 1,
          !.debounceRuns = 0]
  /\ TimersOnly

\* a call of the debounced function: clearTimeout(timeoutId) if it is not
\* null, then timeoutId = setTimeout(..., delay)
debounced(arg) ==
  /\ timers.nextId <= MaxCalls
  /\ timers' =
       [timers EXCEPT
          !.queue = {t \in @ : timers.timeoutId = Null
                               \/ t.id # timers.timeoutId}
                    \cup {[id |-> timers.nextId,
                           due |-> timers.now + timers.delay,
                           args |-> arg]},
          !.timeoutId = timers.nextId,
          !.nextId = @ + 1,
          !.last = Ran("debounced", arg, FALSE),
          !.calledAt = timers.now, !.calledArg = arg,
          !.burst = IF timers.timeoutId = Null THEN 1 ELSE @ + 1,
          !.debounceRuns = 0]
  /\ TimersOnly

\* a due timer runs its callback: fn(...args); timeoutId = null
timeout(t) ==
  /\ t \in timers.queue /\ t.due = timers.now
  /\ timers' = [timers EXCEPT
                  !.queue = @ \ {t},
                  !.timeoutId = Null,
                  !.last = Ran("timeout", t.args, TRUE),
                  !.debounceRuns = @ + 1]
  /\ TimersOnly

\* a call of the throttled function
throttled(arg) ==
  /\ IF timers.now - timers.lastCallTime >= timers.interval
     THEN timers' = [timers EXCEPT
                       !.lastCallTime = timers.now,
                       !.last = Ran("throttled", arg, TRUE),
                       !.throttleCalled = TRUE,
                       !.ranAt = timers.now]
     ELSE timers' = [timers EXCEPT
                       !.last = Ran("throttled", arg, FALSE),
                       !.throttleCalled = TRUE]
  /\ TimersOnly

\* one millisecond passes
tick ==
  /\ timers.now < MaxTime
  /\ \A t \in timers.queue : timers.now < t.due
  /\ timers' = [timers EXCEPT !.now = @ + 1,
                              !.last = Ran("tick", "", FALSE)]
  /\ TimersOnly

NextTimers ==
  \/ \E a \in Arguments : debounced(a)
  \/ \E t \in timers.queue : timeout(t)
  \/ \E a \in Arguments : throttled(a)
  \/ tick

SpecTimers == InitTimers /\ [][NextTimers]_vars

(***************************************************************************)
(* Properties                                                              *)
(***************************************************************************)
MutatingOps == {"zoom", "panBy", "panTo", "reset"}

WritingOps == {"zoom", "panBy", "panTo"}

AllFinite(st) ==
  st.scale.k = "fin" /\ st.translateX.k = "fin" /\ st.translateY.k = "fin"

InScaleRange(st) ==
  Le(config.minScale, st.scale) /\ Le(st.scale, config.maxScale)

\* C1 as stated: after construction and after every operation,
\* minScale <= state.scale <= maxScale.
C1_ScaleAlwaysInRange == InScaleRange(state)

\* C1 amended: state.scale is within [minScale, maxScale], or is the
\* construction/reset value 1, or is NaN.
C1_ScaleInRangeOrOneOrNaN ==
  InScaleRange(state) \/ state.scale = Px(1) \/ state.scale = NaN

\* a zoom far below the range ended at minScale, one far above at maxScale
C1_Witness ==
  /\ isActiveFlag /\ call.op = "zoom"
  /\ \/ call.c = Px(-4) /\ state.scale = config.minScale
     \/ call.c = PosInf /\ state.scale = config.maxScale

\* C2: once destroyed, every zoom, panBy, panTo and reset call leaves
\* getState() as it was before the call.
C2_DestroyedFreezesState ==
  [][(~isActiveFlag /\ call'.op \in MutatingOps) => getState' = getState]_vars

\* a panTo made after destroy() whose target the state did not take
C2_Witness ==
  /\ ~isActiveFlag /\ call.op = "panTo"
  /\ state.translateX # call.a /\ state.translateY # call.b

\* C3: once destroyed, zoom, panBy, panTo and reset leave the element's
\* transform and transformOrigin as they were before the call.
C3_DestroyedEmitsNothing ==
  [][(~isActiveFlag /\ call'.op \in MutatingOps) => element' = element]_vars

\* construct, destroy(), zoom: the element has never been written
C3_Witness ==
  /\ ~isActiveFlag /\ call.op = "zoom" /\ call.c = Px(1)
  /\ element = NewElement

\* C4: the engine starts Active, and once isActive() is false it is false
\* in every later state.
C4_LifecycleIrreversible ==
  /\ [](call.op = "new" => isActive)
  /\ [][(~isActive) => (~isActive')]_vars

\* a mutating operation called after destroy()
C4_Witness == ~isActive /\ call.op = "reset"

\* C5: an Active zoom with deltaScale d sets scale to
\* clamp(scale + d / scaleSensitivity, minScale, maxScale).
C5_ZoomScale ==
  [][(isActiveFlag /\ call'.op = "zoom") =>
       state'.scale = clamp(Add(state.scale,
                                Div(call'.c, config.scaleSensitivity)),
                            config.minScale, config.maxScale)]_vars

\* one step of +1 at sensitivity 2 from scale 1: scale 1.5, not clamped
C5_Witness ==
  /\ isActiveFlag /\ call.op = "zoom" /\ call.c = Px(1)
  /\ config.scaleSensitivity = Px(2) /\ state.scale = Half(3)

\* C6 as stated: an Active zoom at (x, y) sets originX = x and originY = y.
C6_ZoomSetsOrigin ==
  (isActiveFlag /\ call.op = "zoom") =>
    (state.originX = call.a /\ state.originY = call.b)

\* C7 as stated: scale, translateX and translateY are finite in every
\* reachable state.
C7_StateAlwaysFinite ==
  /\ NumberIsFinite(state.scale)
  /\ NumberIsFinite(state.translateX)
  /\ NumberIsFinite(state.translateY)

\* the state an Active call computes from the state before it
C7_Computed(st, cl) ==
  CASE cl.op = "zoom" ->
         [st EXCEPT !.scale =
            clamp(Add(st.scale, Div(cl.c, config.scaleSensitivity)),
                  config.minScale, config.maxScale)]
    [] cl.op = "panBy" ->
         [st EXCEPT !.translateX = Add(st.translateX, cl.a),
                    !.translateY = Add(st.translateY, cl.b)]
    [] cl.op = "panTo" ->
         [st EXCEPT !.scale = IF cl.c = Undefined THEN st.scale
                              ELSE clamp(cl.c, config.minScale,
                                         config.maxScale),
                    !.translateX = cl.a,
                    !.translateY = cl.b]

\* C7 amended: an Active zoom, panBy or panTo that computes a non-finite
\* scale, translateX or translateY is not rejected: the state takes the
\* computed value, and only the element write is withheld.
C7_NonFiniteStoredNotWritten ==
  [][(isActiveFlag /\ call'.op \in WritingOps /\ ~AllFinite(state')) =>
       (state' = C7_Computed(state, call') /\ element' = element)]_vars

\* a zoom with a NaN deltaScale left scale NaN and the element as written
\* by an earlier call
C7_Witness ==
  /\ isActiveFlag /\ call.op = "zoom" /\ call.c = NaN
  /\ state.scale = NaN /\ element # NewElement

\* C8: no step that ends with a non-finite scale, translateX or
\* translateY writes the element's transform or transformOrigin.
C8_NoWriteFromNonFinite ==
  [][~AllFinite(state') => element' = element]_vars

\* translateX is Infinity and the element still holds the descriptor of
\* the last finite state
C8_Witness ==
  /\ call.op \in {"panBy", "applyTransform"}
  /\ state.translateX = PosInf
  /\ element.transform = "matrix(1, 0, 0, 1, 1, 0)"

C10_ResetToInitial ==
  [][(isActiveFlag /\ call'.op = "reset") =>
       /\ state' = [originX |-> Fin(0), originY |-> Fin(0),
                    translateX |-> Fin(0), translateY |-> Fin(0),
                    scale |-> Fin(Unit)]
       /\ (call.op = "reset" => state' = state /\ element' = element)]_vars

\* a reset() made after the element was written from a zoomed, panned
\* state
C10_Witness ==
  /\ isActiveFlag /\ call.op = "reset"
  /\ state.scale = Px(1) /\ state.translateX = Px(0)
  /\ element.transform = "matrix(2, 0, 0, 2, 1, 1)"

C12_PanToAbsolute ==
  (call.active /\ call.op = "panTo") =>
    /\ state.translateX = call.a
    /\ state.translateY = call.b
    /\ state.scale = IF call.c = Undefined THEN call.from.scale
                     ELSE clamp(call.c, config.minScale, config.maxScale)

\* a panTo without scale kept scale 1.5, or one asking for scale 5 ended at
\* maxScale
C12_Witness ==
  /\ call.active /\ call.op = "panTo" /\ state.translateX = Px(-1)
  /\ \/ call.c = Undefined /\ state.scale = Half(3)
        /\ call.from.translateX = Px(1)
     \/ call.c = Px(5) /\ state.scale = config.maxScale
        /\ call.from.scale # config.maxScale

\* C14 as stated: an Active zoom with deltaScale > 0 never lowers scale
\* and strictly raises it when scale < maxScale before the call; one with
\* deltaScale < 0 never raises it and strictly lowers it when
\* scale > minScale before the call.
C14_ZoomMonotone ==
  (call.active /\ call.op = "zoom") =>
    /\ Lt(Px(0), call.c) =>
         /\ ~Lt(state.scale, call.from.scale)
         /\ Lt(call.from.scale, config.maxScale) =>
              Lt(call.from.scale, state.scale)
    /\ Lt(call.c, Px(0)) =>
         /\ ~Lt(call.from.scale, state.scale)
         /\ Lt(config.minScale, call.from.scale) =>
              Lt(state.scale, call.from.scale)

\* C14 amended: the same, for a call made with the scale within
\* [minScale, maxScale].
C14_ZoomMonotoneInRange ==
  InScaleRange(call.from) => C14_ZoomMonotone

\* a zoom of -1 at sensitivity 2 took scale 1 to 0.5
C14_Witness ==
  /\ call.active /\ call.op = "zoom" /\ call.c = Px(-1)
  /\ call.from.scale = Px(1) /\ state.scale = Half(1)

C16_PanByKeepsScaleOrigin ==
  call.op = "panBy" =>
    /\ state.scale = call.from.scale
    /\ state.originX = call.from.originX
    /\ state.originY = call.from.originY

\* a panBy that moved a zoomed state
C16_Witness ==
  /\ call.op = "panBy" /\ call.a = Px(1) /\ call.b = Px(1)
  /\ state.scale = Half(3)
  /\ state.translateX # call.from.translateX
  /\ state.translateY # call.from.translateY

\* C18: a destroy() on a destroyed engine leaves the lifecycle flag, the
\* state and the element as they were, and does not throw.
C18_DestroyIdempotent ==
  [][(~isActiveFlag /\ call'.op = "destroy") =>
       /\ isActiveFlag' = isActiveFlag
       /\ state' = state
       /\ element' = element
       /\ ~call'.threw]_vars

\* a second destroy()
C18_Witness ==
  /\ call.op = "destroy" /\ ~call.active /\ ~isActiveFlag
  /\ element # NewElement

\* the scale an Active zoom computes before clamping
C13_Candidate ==
  Add(call.from.scale, Div(call.c, config.scaleSensitivity))

\* a configuration that contains 1, and an Active zoom just made that
\* left a scale other than NaN
C13_Applies ==
  /\ Le(config.minScale, Px(1)) /\ Le(Px(1), config.maxScale)
  /\ isActiveFlag /\ call.op = "zoom" /\ state.scale # NaN

C19_NeverThrows ==
  /\ ~call.threw
  /\ (call.active /\ call.op = "panTo" /\ call.c \notin {Undefined, NaN})
       => InScaleRange(state)
  /\ (call.active /\ call.op = "zoom" /\ C13_Candidate # NaN)
       => InScaleRange(state)

\* calls with NaN and Infinity arguments that returned, in both lifecycle
\* states
C19_Witness ==
  /\ call.op = "panTo" /\ call.a = PosInf /\ call.b = NaN
  /\ \/ ~call.active /\ call.c = NaN
     \/ call.active /\ call.c = Px(5) /\ state.scale = config.maxScale

EngineOps == {"zoom", "panBy", "panTo", "reset", "destroy", "applyTransform"}

\* C17: getState() gives an object with the engine's five values;
\* assigning a field of it never changes the engine's state, and no later
\* engine operation changes it.
C17_GetStateCopies ==
  [][/\ call'.op = "getState" => (returned' = state /\ state' = state)
     /\ call'.op = "assign" => (state' = state /\ returned'.scale = call'.a)
     /\ call'.op \in EngineOps => returned' = returned]_vars

\* the host set scale = 7 in the object it holds, then the engine zoomed:
\* the engine's scale is in range and the object still says 7
C17_Witness ==
  /\ returned # NoObject /\ returned.scale = Px(7)
  /\ call.op = "zoom" /\ call.active
  /\ state.scale # call.from.scale /\ InScaleRange(state)

C21_Clamp ==
  result.fn = "clamp" =>
    LET value == call.a
        min == call.b
        max == call.c
        r == result.value
    IN  /\ r = MathMax(min, MathMin(value, max))
        /\ clamp(r, min, max) = r
        /\ Le(min, max) =>
             /\ Le(min, r) /\ Le(r, max)
             /\ (Le(min, value) /\ Le(value, max)) => r = value
             /\ Lt(value, min) => r = min
             /\ Lt(max, value) => r = max

\* C21 amended: the same for a value other than NaN; clamp of NaN is NaN.
C21_ClampNonNaN ==
  result.fn = "clamp" =>
    /\ call.a # NaN => C21_Clamp
    /\ call.a = NaN => result.value = NaN

\* clamp(3, 1, 2) = 2, clamp(-1, 0.5, 1) = 0.5, clamp(1.5, 1, 2) = 1.5
C21_Witness ==
  /\ result.fn = "clamp"
  /\ \/ call.a = Px(3) /\ call.b = Px(1) /\ call.c = Px(2)
        /\ result.value = Px(2)
     \/ call.a = Px(-1) /\ call.b = Half(1) /\ call.c = Px(1)
        /\ result.value = Half(1)
     \/ call.a = Half(3) /\ call.b = Px(1) /\ call.c = Px(2)
        /\ result.value = Half(3)

C23_Defaults ==
  /\ helper.kind = "none" =>
       /\ config.scaleSensitivity = Px(10)
       /\ (call.op = "zoom" /\ call.c = Px(1)) =>
            state.scale = clamp(Add(call.from.scale, Fin(Unit \div 10)),
                                config.minScale, config.maxScale)
  /\ helper.kind \in {"zoomPan", "zoomPanWithPointer"} =>
       /\ "minScale" \notin helper.options.keys => config.minScale = Fin(10)
       /\ "maxScale" \notin helper.options.keys => config.maxScale = Px(30)
       /\ "scaleSensitivity" \notin helper.options.keys =>
            /\ config.scaleSensitivity = Px(50)
            /\ (call.op = "zoom" /\ call.c = Px(1)) =>
                 state.scale = clamp(Add(call.from.scale, Fin(Unit \div 50)),
                                     config.minScale, config.maxScale)

\* zoomPanWithPointer({element}): one Ctrl+wheel up took scale 1 to 1.02
C23_Witness ==
  /\ helper.kind = "zoomPanWithPointer" /\ helper.options.keys = {}
  /\ call.op = "zoom" /\ call.c = Px(1) /\ call.from.scale = Px(1)
  /\ element.transform = "matrix(1.02, 0, 0, 1.02, 0, 0)"

\* C24: in zoomPan (set up, not destroyed) a mouse event changes the
\* translation only if it is a mousemove on the element with enablePan,
\* Shift held and a left-button mousedown on the element not yet followed
\* by a mouseup; that move adds exactly (movementX, movementY).
C24_PanOnlyWhileDragging ==
  [][(/\ helper.kind = "zoomPan" /\ ~helper.destroyed
      /\ helper'.last.op = "dispatchEvent"
      /\ helper'.last.event.type \in {"mousedown", "mousemove", "mouseup"})
     =>
       LET event == helper'.last.event
       IN  IF /\ event.type = "mousemove"
              /\ helper'.last.target = "element"
              /\ helper.enablePan /\ helper.pressed /\ event.shiftKey
           THEN /\ state'.translateX = Add(state.translateX, event.movementX)
                /\ state'.translateY = Add(state.translateY, event.movementY)
           ELSE /\ state'.translateX = state.translateX
                /\ state'.translateY = state.translateY]_vars

\* a Shift+move of (1, 1) during a drag moved the translation to (1, 1)
C24_Witness ==
  /\ helper.kind = "zoomPan" /\ helper.isPanning
  /\ helper.last.event.type = "mousemove" /\ helper.last.event.shiftKey
  /\ helper.last.event.movementX = Px(1)
  /\ call.op = "panBy" /\ call.from.translateX = Px(0)
  /\ state.translateX = Px(1) /\ state.translateY = Px(1)

\* C25: in zoomPan a wheel event changes scale only if enableZoom and
\* (ctrlKey or enableMouseWheel); with the default options a wheel event
\* without Ctrl leaves the state and the element unchanged.
C25_WheelNeedsCtrl ==
  [][(/\ helper.kind = "zoomPan"
      /\ helper'.last.op = "dispatchEvent"
      /\ helper'.last.event.type = "wheel")
     =>
       /\ state'.scale # state.scale =>
            /\ helper.enableZoom
            /\ helper'.last.event.ctrlKey \/ helper.enableMouseWheel
       /\ (helper.options.keys = {} /\ ~helper'.last.event.ctrlKey) =>
            (state' = state /\ element' = element)]_vars

\* default options: after a Ctrl+wheel had zoomed to 1.02, a wheel event
\* without Ctrl on the element changed nothing
C25_Witness ==
  /\ helper.kind = "zoomPan" /\ helper.options.keys = {}
  /\ ~helper.destroyed
  /\ helper.last.op = "dispatchEvent" /\ helper.last.target = "element"
  /\ helper.last.event.type = "wheel" /\ ~helper.last.event.ctrlKey
  /\ call.op = "dispatchEvent"
  /\ state.scale = Fin(102)
  /\ element.transform = "matrix(1.02, 0, 0, 1.02, 0, 0)"

\* C26 as stated: with enableZoom false, a Ctrl+wheel event passed to
\* api.zoom does not throw and leaves state.scale as it was.
C26_ApiZoomRespectsEnableZoom ==
  [][(/\ helper.kind = "zoomPan" /\ ~helper.enableZoom
      /\ helper'.last.op = "api.zoom" /\ helper'.last.event.ctrlKey)
     => (~call'.threw /\ state'.scale = state.scale)]_vars

\* C27: once the helper's destroy() has run, no event dispatched on the
\* element or the document changes the engine state or the element.
C27_NoEventAfterHelperDestroy ==
  [][(/\ helper.kind \in {"zoomPan", "zoomPanWithPointer"}
      /\ helper.destroyed
      /\ helper'.last.op = "dispatchEvent")
     => (state' = state /\ element' = element)]_vars

\* destroy() in the middle of a drag that had panned to (1, 1), then a
\* Shift+move on the element
C27_Witness ==
  /\ helper.kind = "zoomPan" /\ helper.destroyed /\ helper.isPanning
  /\ helper.last.op = "dispatchEvent" /\ helper.last.target = "element"
  /\ helper.last.event.type = "mousemove" /\ helper.last.event.shiftKey
  /\ state.translateX = Px(1) /\ state.translateY = Px(1)
  /\ element.transform = "matrix(1, 0, 0, 1, 1, 1)"

\* C30 as stated: in every state, Active or Destroyed, the facade's
\* panTo({x, y, scale}) leaves the state and the element as
\* Renderer.panTo({element, originX: x, originY: y, scale}) does.
C30_FacadePanToAsEngine ==
  [][\A x \in ToXs, y \in ToYs, s \in ToScales :
       useZoomPan_panTo(x, y, s) => panTo(x, y, s)]_vars

\* C28: the wrapped function runs only from the timer of the most recent
\* call of the debounced function: exactly `delay` after that call, with
\* its arguments, and once; a call made while a timer is pending replaces
\* the timer, and a pending timer is never overdue.
C28_DebounceRunsOncePerBurst ==
  /\ [][timers'.debounceRuns > timers.debounceRuns =>
          /\ timers.debounceRuns = 0
          /\ timers.timeoutId # Null /\ timers'.timeoutId = Null
          /\ timers.now = timers.calledAt + timers.delay
          /\ timers'.last.arg = timers.calledArg
          /\ timers'.queue = {}]_vars
  /\ [][timers'.calledAt # timers.calledAt \/ timers'.burst # timers.burst =>
          /\ \A t \in timers'.queue :
               t.due = timers.now + timers.delay /\ t.args = timers'.calledArg
          /\ timers'.queue # {}]_vars
  /\ [](\A t \in timers.queue : timers.now <= t.due)
  /\ []((timers.queue = {}) = (timers.timeoutId = Null))

\* a burst of two calls, "a" then "b" one millisecond later: the function
\* ran once, with "b", `delay` after the second call
C28_Witness ==
  /\ timers.last = Ran("timeout", "b", TRUE)
  /\ timers.burst = 2 /\ timers.debounceRuns = 1
  /\ timers.delay = 2 /\ timers.now = timers.calledAt + 2
  /\ timers.nextId = 3

\* C29 as stated: the first call of a throttled function runs the wrapped
\* function; a later call runs it iff at least `interval` has passed since
\* the last call that ran it.
C29_ThrottleFirstCallRuns ==
  [][timers'.last.op = "throttled" =>
       timers'.last.ran =
         (IF ~timers.throttleCalled THEN TRUE
          ELSE timers.ranAt >= 0
               /\ timers.now - timers.ranAt >= timers.interval)]_vars

\* C31 as stated: reset() never writes to the element, and after a reset
\* made right after a zoom or pan the element's descriptor differs from
\* that of the engine state.
C31_ResetLeavesElementStale ==
  [][call'.op = "reset" =>
       /\ element' = element
       /\ (call'.active /\ call.active /\ call.op \in WritingOps) =>
            element'.transform #
              getMatrixTransform(state'.scale, state'.translateX,
                                 state'.translateY)]_vars

\* C31 amended: reset() never writes to the element; after a reset in the
\* Active state the element's descriptor differs from that of the engine
\* state unless the last emission was of scale 1 and translation (0, 0),
\* and the element changes only with a later emission.
C31_ResetKeepsLastEmission ==
  /\ [][call'.op = "reset" =>
          /\ element' = element
          /\ call'.active =>
               ((element'.transform #
                   getMatrixTransform(state'.scale, state'.translateX,
                                      state'.translateY))
                <=> element.transform # "matrix(1, 0, 0, 1, 0, 0)")]_vars
  /\ [][element' # element =>
          call'.op \in WritingOps \cup {"applyTransform"}]_vars

\* a reset after a pan to (1, 0): the engine is back at the initial state,
\* the element still shows the pan
C31_Witness ==
  /\ call.op = "reset" /\ call.active
  /\ call.from.translateX = Px(1)
  /\ state = getInitialState
  /\ element.transform = "matrix(1, 0, 0, 1, 1, 0)"

\* C38 as stated: once state.scale is NaN, every zoom and panBy leaves it
\* NaN and writes nothing to the element; only reset() or a panTo carrying
\* a finite scale makes the scale finite again.
C38_NaNScaleAbsorbing ==
  [][state.scale = NaN =>
       /\ call'.op \in {"zoom", "panBy"} =>
            (state'.scale = NaN /\ element' = element)
       /\ NumberIsFinite(state'.scale) =>
            \/ call'.op = "reset"
            \/ call'.op = "panTo" /\ NumberIsFinite(call'.c)]_vars

\* C38 amended: once state.scale is NaN, every zoom and panBy leaves it
\* NaN and writes nothing to the element; only reset() or a panTo carrying
\* a scale other than NaN (an infinite one is clamped to a bound) makes the
\* scale finite again.
C38_NaNScaleAbsorbingUnlessClamped ==
  [][state.scale = NaN =>
       /\ call'.op \in {"zoom", "panBy"} =>
            (state'.scale = NaN /\ element' = element)
       /\ NumberIsFinite(state'.scale) =>
            \/ call'.op = "reset"
            \/ call'.op = "panTo" /\ call'.c \notin {NaN, Undefined}]_vars

\* after a pan had been emitted and a zoom by NaN had made the scale NaN, a
\* finite zoom in the Active state left the scale NaN and the element as
\* it was
C38_Witness ==
  /\ call.op = "zoom" /\ call.c = Px(1) /\ call.active
  /\ call.from.scale = NaN /\ state.scale = NaN
  /\ element.transform = "matrix(1, 0, 0, 1, 1, 0)"

\* C37 as stated: with the bitmask 1 = left, 2 = right, 4 = middle, for
\* every value of event.buttons isLeftPressed holds iff bit 1 is set,
\* isRightPressed iff bit 2 is set and isMiddlePressed iff bit 4 is set.
C37_PressedMatchesBitmask ==
  result.fn = "getMouseState" =>
    LET b == result.value.buttons
    IN  /\ result.value.leftPressed = (b % 2 = 1)
        /\ result.value.rightPressed = ((b \div 2) % 2 = 1)
        /\ result.value.middlePressed = ((b \div 4) % 2 = 1)

\* pos === prevPos
C39_SamePosition(pos, prevPos) ==
  pos.k # "nan" /\ prevPos.k # "nan" /\ pos = prevPos

C39_Formula(r) ==
  Add(r.translate,
      Mul(Sub(r.pos, Mul(r.prevPos, r.scale)),
          Sub(Px(1), Div(Px(1), r.scale))))

\* C39 as stated: calculateTranslate returns translate whenever pos equals
\* prevPos or scale is outside [minScale, maxScale], and also whenever
\* scale = 1; otherwise translate + (pos - prevPos * scale) * (1 - 1 / scale).
\* The call leaves the engine state and the element alone.
C39_CalculateTranslate ==
  /\ [](result.fn = "calculateTranslate" =>
          result.value =
            (IF \/ C39_SamePosition(result.pos, result.prevPos)
                \/ ~isScaleInRange(result.scale, config.minScale,
                                   config.maxScale)
                \/ result.scale = Px(1)
             THEN result.translate
             ELSE C39_Formula(result)))
  /\ [][call'.op = "calculateTranslate" =>
          (state' = state /\ element' = element)]_vars

\* C39 amended: as stated, but at scale 1 translate is returned only for
\* finite pos and prevPos; with an infinite or NaN position the formula
\* applies and gives NaN.
C39_CalculateTranslateFinite ==
  /\ [](result.fn = "calculateTranslate" =>
          result.value =
            (IF \/ C39_SamePosition(result.pos, result.prevPos)
                \/ ~isScaleInRange(result.scale, config.minScale,
                                   config.maxScale)
                \/ /\ result.scale = Px(1)
                   /\ NumberIsFinite(result.pos)
                   /\ NumberIsFinite(result.prevPos)
             THEN result.translate
             ELSE C39_Formula(result)))
  /\ [](result.fn = "calculateTranslate"
        /\ result.scale = Px(1)
        /\ isScaleInRange(result.scale, config.minScale, config.maxScale)
        /\ ~C39_SamePosition(result.pos, result.prevPos)
        /\ ~(NumberIsFinite(result.pos) /\ NumberIsFinite(result.prevPos))
        => result.value = NaN)
  /\ [][call'.op = "calculateTranslate" =>
          (state' = state /\ element' = element)]_vars

\* calculateTranslate(0, 1, 5, 2, minScale, 2 or 3)
\*   = 5 + (0 - 1 * 2) * (1 - 1 / 2) = 4
C39_Witness ==
  /\ result.fn = "calculateTranslate"
  /\ result.pos = Px(0) /\ result.prevPos = Px(1)
  /\ result.translate = Px(5) /\ result.scale = Px(2)
  /\ result.value = Px(4)

\* C32: the helper's destroy() leaves the engine, its state and the element
\* as they are, so the engine stays active; after it api.zoom, api.panBy
\* and api.panTo act on the state as before and write the element.
C32_HelperDestroyKeepsEngine ==
  /\ [][helper'.last.op = "destroy" =>
          (isActiveFlag' = isActiveFlag /\ state' = state
           /\ element' = element)]_vars
  /\ [](helper.kind # "none" /\ helper.destroyed => isActive)
  /\ [][(helper.destroyed
         /\ helper'.last.op \in {"api.zoom", "api.panBy", "api.panTo"})
        =>
          /\ element'.transform =
               getMatrixTransform(state'.scale, state'.translateX,
                                  state'.translateY)
          /\ helper'.last.op = "api.zoom" =>
               state'.scale =
                 clamp(Add(state.scale,
                           Div(call'.c, config.scaleSensitivity)),
                       config.minScale, config.maxScale)
          /\ helper'.last.op = "api.panBy" =>
               /\ state'.translateX = Add(state.translateX, call'.a)
               /\ state'.translateY = Add(state.translateY, call'.b)
          /\ helper'.last.op = "api.panTo" =>
               /\ state'.translateX = call'.a
               /\ state'.translateY = call'.b]_vars

\* zoomPanWithPointer destroyed, then api.panBy({1, 0}) moved the state
\* and the element
C32_Witness ==
  /\ helper.kind = "zoomPanWithPointer" /\ helper.destroyed
  /\ helper.last.op = "api.panBy" /\ isActive
  /\ call.op = "panBy" /\ call.a = Px(1)
  /\ call.from.translateX = Px(0) /\ state.translateX = Px(1)
  /\ element.transform = "matrix(1, 0, 0, 1, 1, 0)"

\* C33: in zoomPan, until destroy(), isPanning holds exactly when the
\* element's mousemove listener is attached and exactly when the document's
\* mouseup listener is attached; a mouseup dispatched anywhere during a
\* drag ends it.
C33_PanningIffListening ==
  /\ []((helper.kind = "zoomPan" /\ ~helper.destroyed) =>
          /\ helper.isPanning
               <=> <<"element", "mousemove">> \in helper.listeners
          /\ helper.isPanning
               <=> <<"document", "mouseup">> \in helper.listeners)
  /\ [][(/\ helper.kind = "zoomPan" /\ ~helper.destroyed
         /\ helper'.last.op = "dispatchEvent"
         /\ helper'.last.event.type = "mouseup")
        => ~helper'.isPanning]_vars
  /\ [][(/\ helper.kind = "zoomPan" /\ ~helper.destroyed
         /\ helper.isPanning
         /\ helper'.last.op = "dispatchEvent"
         /\ helper'.last.event.type = "mousedown")
        => helper'.listeners = helper.listeners]_vars

\* a second left mousedown during a drag: still panning, each listener
\* attached once
C33_Witness ==
  /\ helper.kind = "zoomPan" /\ ~helper.destroyed /\ helper.isPanning
  /\ helper.last.op = "dispatchEvent" /\ helper.last.target = "element"
  /\ helper.last.event.type = "mousedown" /\ helper.last.event.button = 0
  /\ state.translateX = Px(1)
  /\ helper.listeners = {<<"element", "wheel">>, <<"element", "mousedown">>,
                         <<"element", "mousemove">>, <<"document", "mouseup">>}

\* C34: useZoomPan's zoom turns a wheel event into one engine zoom with
\* deltaScale -1 when deltaY > 0 and +1 otherwise (deltaY = 0 included),
\* whatever the magnitude of deltaY.
C34_WheelToOneStep ==
  [][helper'.last.op = "api.zoom" =>
       LET d == IF Lt(Px(0), helper'.last.event.deltaY)
                THEN Px(-1) ELSE Px(1)
       IN  /\ call'.op = "zoom" /\ call'.c = d
           /\ state'.scale =
                clamp(Add(state.scale, Div(d, config.scaleSensitivity)),
                      config.minScale, config.maxScale)
           /\ state'.translateX = state.translateX
           /\ state'.translateY = state.translateY]_vars

\* a wheel event with deltaY = 0 zoomed in from 1 to 1.02
C34_Witness ==
  /\ helper.kind = "zoomPan"
  /\ helper.last.op = "api.zoom" /\ helper.last.event.deltaY = Px(0)
  /\ call.op = "zoom" /\ call.c = Px(1)
  /\ call.from.scale = Px(1) /\ state.scale = Fin(102)

\* C35: in zoomPanWithPointer, during a drag (from the left-button
\* pointerdown on the element until pointerup) the translation added by
\* the drag is the position of the last Shift-held move minus the
\* pointerdown position; a move without Shift neither pans nor changes
\* the reference position, and pointerdown and pointerup do not pan.
C35_DragTotal ==
  /\ []((helper.kind = "zoomPanWithPointer" /\ ~helper.destroyed
         /\ helper.pressed) =>
          /\ helper.drag.moved[1] =
               Sub(helper.drag.lastShiftAt[1], helper.drag.downAt[1])
          /\ helper.drag.moved[2] =
               Sub(helper.drag.lastShiftAt[2], helper.drag.downAt[2])
          /\ helper.lastPointerPosition = helper.drag.lastShiftAt)
  /\ [][(/\ helper.kind = "zoomPanWithPointer"
         /\ helper'.last.op = "dispatchEvent"
         /\ \/ helper'.last.event.type \in {"pointerdown", "pointerup"}
            \/ /\ helper'.last.event.type = "pointermove"
               /\ ~helper'.last.event.shiftKey)
        => /\ state'.translateX = state.translateX
           /\ state'.translateY = state.translateY]_vars

\* down at (0, 0), Shift-held moves ending at (1, 1), then a move to
\* (1, 0) without Shift: the drag has added (1, 1)
C35_Witness ==
  /\ helper.kind = "zoomPanWithPointer" /\ ~helper.destroyed
  /\ helper.pressed
  /\ helper.last.event.type = "pointermove" /\ ~helper.last.event.shiftKey
  /\ helper.last.event.pageX = Px(1) /\ helper.last.event.pageY = Px(0)
  /\ helper.drag.downAt = <<Px(0), Px(0)>>
  /\ helper.drag.lastShiftAt = <<Px(1), Px(1)>>
  /\ helper.drag.moved = <<Px(1), Px(1)>>
  /\ state.translateX = Px(1) /\ state.translateY = Px(1)

\* C36 as stated: in zoomPanWithPointer, with enablePan false no pointer
\* event changes the translation, and with enableZoom false no wheel event
\* changes the scale.
C36_PointerHonoursFlags ==
  [][(helper.kind = "zoomPanWithPointer"
      /\ helper'.last.op = "dispatchEvent")
     =>
       /\ ~helper.enablePan =>
            /\ state'.translateX = state.translateX
            /\ state'.translateY = state.translateY
       /\ ~helper.enableZoom => state'.scale = state.scale]_vars

=============================================================================
